---- MODULE Spec2Model ----
(***************************************************************************)
(* Model of SimPy/surgery/surgery_sim.py: the clinic queueing network      *)
(* (registration -> triage -> ed | acu) executed by the SimPy event loop,  *)
(* and the SimulationDriver that runs n_sims replications and persists     *)
(* the patient timestamps and the queue-length samples.                    *)
(*                                                                         *)
(* The SimPy engine is modelled by what the calls made in surgery_sim.py   *)
(* do: env.process() schedules an URGENT initialisation event at now,      *)
(* env.timeout(d) a NORMAL event at now+d, a granted Request and a Release *)
(* NORMAL events at now, env.run(until=H) an URGENT stop event at H; the   *)
(* event heap is ordered by (time, priority, eid).                         *)
(***************************************************************************)
EXTENDS Integers, Sequences, FiniteSets, TLC

\* ---------------------------------------------------------------- bounds
MaxPatients       == 3   \* patients created in a replication
MaxPatientsDriver == 1   \* the same, when several replications are run

\* ---------------------------------------------------------------- inputs
\* draws of random.expovariate, as whole numbers of time units
Delays == {0, 1}

\* ------------------------------------------------------------- constants
URGENT == 0
NORMAL == 1

Pools == {"registration", "triage", "ed", "acu"}

VARIABLES
    config,       \* SimulationConfig values used by the core
    pc,           \* position of SimulationDriver.run
    run_id,       \* loop variable of SimulationDriver.run
    db_open,      \* sqlite connection not yet closed
    db_queues,    \* committed rows of the queue-length table
    db_patients,  \* committed rows of the patient table
    now,          \* env.now
    eid,          \* next event id of the environment
    events,       \* the environment's event heap
    users,        \* pool.users, per pool (patients admitted)
    queue,        \* pool.queue, per pool (patients waiting, in order)
    stats,        \* pool.stats, per pool
    patient_id,   \* next value of count() in generate_patients
    is_for_ed,    \* Patient.is_for_ed, per created patient
    timestamps,   \* Patient.timestamps, per created patient
    patients,     \* SurgerySimulation.patients
    calls,        \* history: request()/release() calls, in order
    executed      \* history: events executed by env.run, in order

driver == <<config, pc, run_id, db_open, db_queues, db_patients>>
sim    == <<now, eid, events, users, queue, stats, patient_id, is_for_ed,
            timestamps, patients>>
hist   == <<calls, executed>>
vars   == <<driver, sim, hist>>

\* ------------------------------------------------------------ helpers
EmptyDict == [k \in {} |-> 0]

Key(service_name, suffix) == service_name \o suffix

DataPoint(timestamp, q_len) == [timestamp |-> timestamp, q_len |-> q_len]

Event(t, prio, n, kind, p, s) ==
    [time |-> t, prio |-> prio, eid |-> n, kind |-> kind, p |-> p, s |-> s]

\* variant: among events of equal time and priority the latest scheduled
\* goes first
Before_lifo(e, f) ==
    \/ e.time < f.time
    \/ e.time = f.time /\ e.prio < f.prio
    \/ e.time = f.time /\ e.prio = f.prio /\ e.eid > f.eid

\* heap order of the environment: (time, priority, eid)
Before(e, f) ==
    \/ e.time < f.time
    \/ e.time = f.time /\ e.prio < f.prio
    \/ e.time = f.time /\ e.prio = f.prio /\ e.eid < f.eid

NextEvent == CHOOSE e \in events : \A f \in events \ {e} : Before(e, f)

total_run_time == config.warm_up_time + config.simulation_time

capacity(s) == config.capacity[s]

\* variant: the warm-up boundary itself still counts as warm-up
is_warming_up_inclusive(t) == t <= config.warm_up_time

is_warming_up(t) == t < config.warm_up_time

\* variant: the two treatments are swapped
treatment_swapped(p) == IF is_for_ed[p] THEN "acu" ELSE "ed"

treatment(p) == IF is_for_ed[p] THEN "ed" ELSE "acu"

process_steps(p) == <<"registration", "triage", treatment(p)>>

\* a pool-side state: what request()/release() read and write
PoolState == [users |-> users, queue |-> queue, stats |-> stats,
              events |-> events, eid |-> eid, calls |-> calls]

\* variant: the head of the wait queue is admitted whatever the occupancy
trigger_put_unbounded(ps, s, t) ==
    IF ps.queue[s] # <<>>
    THEN [ps EXCEPT !.users[s]  = @ \cup {Head(ps.queue[s])},
                    !.queue[s]  = Tail(@),
                    !.events    = @ \cup {Event(t, NORMAL, ps.eid, "request",
                                                Head(ps.queue[s]), s)},
                    !.eid       = @ + 1]
    ELSE ps

\* variant: the most recent waiter is admitted first
trigger_put_lifo(ps, s, t) ==
    IF ps.queue[s] # <<>> /\ Cardinality(ps.users[s]) < capacity(s)
    THEN LET n == Len(ps.queue[s])
         IN  [ps EXCEPT !.users[s]  = @ \cup {ps.queue[s][n]},
                        !.queue[s]  = SubSeq(@, 1, n - 1),
                        !.events    = @ \cup {Event(t, NORMAL, ps.eid, "request",
                                                    ps.queue[s][n], s)},
                        !.eid       = @ + 1]
    ELSE ps

\* variant: the admitted patient is resumed one time unit later
trigger_put_delayed(ps, s, t) ==
    IF ps.queue[s] # <<>> /\ Cardinality(ps.users[s]) < capacity(s)
    THEN [ps EXCEPT !.users[s]  = @ \cup {Head(ps.queue[s])},
                    !.queue[s]  = Tail(@),
                    !.events    = @ \cup {Event(t + 1, NORMAL, ps.eid, "request",
                                                Head(ps.queue[s]), s)},
                    !.eid       = @ + 1]
    ELSE ps

\* Resource._trigger_put: only the head of the wait queue is tried
trigger_put(ps, s, t) ==
    IF ps.queue[s] # <<>> /\ Cardinality(ps.users[s]) < capacity(s)
    THEN [ps EXCEPT !.users[s]  = @ \cup {Head(ps.queue[s])},
                    !.queue[s]  = Tail(@),
                    !.events    = @ \cup {Event(t, NORMAL, ps.eid, "request",
                                                Head(ps.queue[s]), s)},
                    !.eid       = @ + 1]
    ELSE ps

\* history of one request()/release() call: the pool as the call found it
\* (pre) and as it left it (post)
Logged(op, pre, post, p, s, t) ==
    [post EXCEPT !.calls = Append(@,
        [op |-> op, p |-> p, s |-> s, t |-> t,
         idx |-> Len(post.stats[s]),
         before |-> Len(pre.queue[s]), after |-> Len(post.queue[s]),
         held |-> p \in pre.users[s],
         head |-> IF pre.queue[s] # <<>> THEN Head(pre.queue[s]) ELSE -1,
         waited |-> \E i \in 1..Len(post.queue[s]) : post.queue[s][i] = p])]

\* variant: Resource.request first, then the sample
request_after(ps, p, s, t) ==
    LET queued  == [ps EXCEPT !.queue[s] = Append(@, p)]
        granted == trigger_put(queued, s, t)
        sampled == [granted EXCEPT
            !.stats[s] = Append(@, DataPoint(t, Len(granted.queue[s])))]
    IN  Logged("request", ps, sampled, p, s, t)

\* MonitoredResource.request: sample, then Resource.request
request(ps, p, s, t) ==
    LET sampled == [ps EXCEPT
            !.stats[s] = Append(@, DataPoint(t, Len(ps.queue[s])))]
        queued  == [sampled EXCEPT !.queue[s] = Append(@, p)]
    IN  Logged("request", ps, trigger_put(queued, s, t), p, s, t)

\* variant: Resource.release first, the head waiter admitted by the call,
\* then the sample
release_after(ps, p, s, t) ==
    LET removed == [ps EXCEPT
            !.users[s] = @ \ {p},
            !.events   = @ \cup {Event(t, NORMAL, ps.eid, "release", p, s)},
            !.eid      = @ + 1]
        granted == trigger_put(removed, s, t)
        sampled == [granted EXCEPT
            !.stats[s] = Append(@, DataPoint(t, Len(granted.queue[s])))]
    IN  Logged("release", ps, sampled, p, s, t)

\* variant: the released patient stays among the users of the pool
release_keep(ps, p, s, t) ==
    LET sampled == [ps EXCEPT
            !.stats[s] = Append(@, DataPoint(t, Len(ps.queue[s])))]
        kept == [sampled EXCEPT
            !.events   = @ \cup {Event(t, NORMAL, sampled.eid, "release", p, s)},
            !.eid      = @ + 1]
    IN  Logged("release", ps, kept, p, s, t)

\* variant: release takes no sample
release_nosample(ps, p, s, t) ==
    LET removed == [ps EXCEPT
            !.users[s] = @ \ {p},
            !.events   = @ \cup {Event(t, NORMAL, ps.eid, "release", p, s)},
            !.eid      = @ + 1]
    IN  Logged("release", ps, removed, p, s, t)

\* variant: the Release event is due one time unit after the call
release_late(ps, p, s, t) ==
    LET sampled == [ps EXCEPT
            !.stats[s] = Append(@, DataPoint(t, Len(ps.queue[s])))]
        removed == [sampled EXCEPT
            !.users[s] = @ \ {p},
            !.events   = @ \cup {Event(t + 1, NORMAL, sampled.eid, "release", p, s)},
            !.eid      = @ + 1]
    IN  Logged("release", ps, removed, p, s, t)

\* MonitoredResource.release: sample, then Resource.release
release(ps, p, s, t) ==
    LET sampled == [ps EXCEPT
            !.stats[s] = Append(@, DataPoint(t, Len(ps.queue[s])))]
        removed == [sampled EXCEPT
            !.users[s] = @ \ {p},
            !.events   = @ \cup {Event(t, NORMAL, sampled.eid, "release", p, s)},
            !.eid      = @ + 1]
    IN  Logged("release", ps, removed, p, s, t)

SetPool(ps) ==
    /\ users'  = ps.users
    /\ queue'  = ps.queue
    /\ stats'  = ps.stats
    /\ events' = ps.events
    /\ eid'    = ps.eid
    /\ calls'  = ps.calls

\* env.step: pop the earliest event and advance the clock to it
Pop(e) ==
    /\ pc = "running"
    /\ e = NextEvent
    /\ now' = e.time
    /\ executed' = Append(executed, [time |-> e.time, prio |-> e.prio,
                                     eid |-> e.eid, kind |-> e.kind,
                                     p |-> e.p, s |-> e.s])

Popped(e) == [PoolState EXCEPT !.events = @ \ {e}]

\* draws of random.expovariate, as whole numbers; Beyond is a draw that
\* lands after the horizon
Beyond == total_run_time + 1
PatientBound == IF config.n_sims > 1 THEN MaxPatientsDriver ELSE MaxPatients
ArrivalDraws(t) ==
    IF patient_id + 1 < PatientBound THEN Delays \cup {Beyond - t}
                                    ELSE {Beyond - t}
ServiceDraws == Delays

\* ------------------------------------------------------------- Init
\* a configuration: warm_up, sim_duration, n_sims, n_receptionists, with one
\* nurse and one doctor of each kind
Config(w, d, n, c) ==
    [warm_up_time |-> w, simulation_time |-> d, n_sims |-> n,
     capacity |-> [s \in Pools |-> IF s = "registration" THEN c ELSE 1]]

Configs(n) == {Config(0, 1, n, 1), Config(0, 1, n, 2), Config(1, 1, n, 1)}

InitWith(n) ==
    /\ config \in Configs(n)
    /\ pc = "idle"
    /\ run_id = 0
    /\ db_open = TRUE
    /\ db_queues = <<>>
    /\ db_patients = <<>>
    /\ now = 0
    /\ eid = 0
    /\ events = {}
    /\ users = [s \in Pools |-> {}]
    /\ queue = [s \in Pools |-> <<>>]
    /\ stats = [s \in Pools |-> <<>>]
    /\ patient_id = 0
    /\ is_for_ed = EmptyDict
    /\ timestamps = EmptyDict
    /\ patients = <<>>
    /\ calls = <<>>
    /\ executed = <<>>

\* ------------------------------------------------------------ actions
\* SimulationDriver.run_once up to env.run: SurgerySimulation.__init__,
\* env.process(generate_patients()), env.run(until=total_run_time)
\* variant: the patient counter is not started afresh
SimInit_carry ==
    [now |-> 0,
     users |-> [s \in Pools |-> {}],
     queue |-> [s \in Pools |-> <<>>],
     stats |-> [s \in Pools |-> <<>>],
     patients |-> <<>>,
     patient_id |-> patient_id]

SimInit ==
    [now |-> 0,
     users |-> [s \in Pools |-> {}],
     queue |-> [s \in Pools |-> <<>>],
     stats |-> [s \in Pools |-> <<>>],
     patients |-> <<>>,
     patient_id |-> 0]

\* variant: the stop event runs after the other events due at the horizon
UntilEvent_last == Event(total_run_time, NORMAL + 1, 1, "until", -1, "")

\* env.run(until=total_run_time): the stop event, urgent, at the horizon
UntilEvent == Event(total_run_time, URGENT, 1, "until", -1, "")

run_once ==
    /\ pc = "idle"
    /\ run_id < config.n_sims
    /\ pc' = "running"
    /\ now' = SimInit.now
    /\ users' = SimInit.users
    /\ queue' = SimInit.queue
    /\ stats' = SimInit.stats
    /\ patients' = SimInit.patients
    /\ patient_id' = SimInit.patient_id
    /\ is_for_ed' = EmptyDict
    /\ timestamps' = EmptyDict
    /\ events' = {Event(0, URGENT, 0, "init_gen", -1, ""), UntilEvent}
    /\ eid' = 2
    /\ calls' = <<>>
    /\ executed' = <<>>
    /\ UNCHANGED <<config, run_id, db_open, db_queues, db_patients>>

\* one turn of the loop of generate_patients
generate_patients ==
    \E e \in events, b \in BOOLEAN :
        /\ Pop(e)
        /\ e.kind \in {"init_gen", "gen_timeout"}
        /\ \E d \in ArrivalDraws(e.time) :
            /\ is_for_ed' = (patient_id :> b) @@ is_for_ed
            /\ timestamps' = (patient_id :> EmptyDict) @@ timestamps
            /\ patients' = IF ~is_warming_up(now') THEN Append(patients, patient_id)
                                                   ELSE patients
            /\ events' = (events \ {e}) \cup
                            {Event(now', URGENT, eid, "init_patient", patient_id, ""),
                             Event(now' + d, NORMAL, eid + 1, "gen_timeout", -1, "")}
            /\ eid' = eid + 2
            /\ patient_id' = patient_id + 1
        /\ UNCHANGED <<driver, users, queue, stats, calls>>

\* do_service up to "yield request"
do_service_entry(ps, p, s, t) == request(ps, p, s, t)

\* process_patient from its start to the first yield
process_patient_start ==
    \E e \in events :
        /\ Pop(e)
        /\ e.kind = "init_patient"
        /\ timestamps' = [timestamps EXCEPT
                ![e.p] = (Key("registration", "_entry") :> now') @@ @]
        /\ SetPool(do_service_entry(Popped(e), e.p, "registration", now'))
        /\ UNCHANGED <<driver, patient_id, is_for_ed, patients>>

\* do_service from "yield request" to "yield timeout"
do_service_start ==
    \E e \in events :
        /\ Pop(e)
        /\ e.kind = "request"
        /\ timestamps' = [timestamps EXCEPT
                ![e.p] = (Key(e.s, "_start") :> now') @@ @]
        /\ \E d \in ServiceDraws :
            /\ events' = (events \ {e}) \cup
                            {Event(now' + d, NORMAL, eid, "timeout", e.p, e.s)}
            /\ eid' = eid + 1
        /\ UNCHANGED <<driver, users, queue, stats, patient_id, is_for_ed,
                       patients, calls>>

\* variant: triage is left out of the steps
NextStep_skip(p, s) ==
    IF s = "registration" THEN treatment(p)
    ELSE "exit"

\* variant: an ed patient goes on to acu
NextStep_both(p, s) ==
    IF s = "registration" THEN "triage"
    ELSE IF s = "triage" THEN treatment(p)
    ELSE IF s = "ed" THEN "acu"
    ELSE "exit"

\* process_patient: the step after s in process_steps
NextStep(p, s) ==
    LET steps == process_steps(p)
        i == CHOOSE k \in 1..Len(steps) : steps[k] = s
    IN  IF i < Len(steps) THEN steps[i + 1] ELSE "exit"

\* do_service from "yield timeout" through the end of the with block, and
\* process_patient on to the next step's request or to its end
do_service_exit ==
    \E e \in events :
        /\ Pop(e)
        /\ e.kind = "timeout"
        /\ LET p == e.p
               s == e.s
               n == NextStep(p, s)
               released == release(Popped(e), p, s, now')
           IN  IF n # "exit"
               THEN /\ timestamps' = [timestamps EXCEPT
                          ![p] = (Key(s, "_exit") :> now') @@
                                 (Key(n, "_entry") :> now') @@ @]
                    /\ SetPool(do_service_entry(released, p, n, now'))
               ELSE /\ timestamps' = [timestamps EXCEPT
                          ![p] = (Key(s, "_exit") :> now') @@
                                 ("exit" :> now') @@ @]
                    /\ SetPool([released EXCEPT
                          !.events = @ \cup {Event(now', NORMAL, released.eid,
                                                   "proc_end", p, "")},
                          !.eid = @ + 1])
        /\ UNCHANGED <<driver, patient_id, is_for_ed, patients>>

\* the Release event's callback: Resource._trigger_put
release_event ==
    \E e \in events :
        /\ Pop(e)
        /\ e.kind = "release"
        /\ SetPool(trigger_put(Popped(e), e.s, now'))
        /\ UNCHANGED <<driver, patient_id, is_for_ed, timestamps, patients>>

\* the event of a finished process_patient: nothing waits on it
process_end ==
    \E e \in events :
        /\ Pop(e)
        /\ e.kind = "proc_end"
        /\ events' = events \ {e}
        /\ UNCHANGED <<driver, eid, users, queue, stats, patient_id, is_for_ed,
                       timestamps, patients, calls>>

\* the stop event of env.run(until=total_run_time)
run_until ==
    \E e \in events :
        /\ Pop(e)
        /\ e.kind = "until"
        /\ events' = events \ {e}
        /\ pc' = "save_queue_lengths"
        /\ UNCHANGED <<config, run_id, db_open, db_queues, db_patients, eid,
                       users, queue, stats, patient_id, is_for_ed, timestamps,
                       patients, calls>>

\* variant: samples taken during warm-up are left out
QueueRows_steady ==
    LET Steady(d) == d.timestamp >= config.warm_up_time
        kept(s) == SelectSeq(stats[s], Steady)
        rows(s) == [i \in 1..Len(kept(s)) |->
                      [run_id |-> run_id, service |-> s,
                       timestamp |-> kept(s)[i].timestamp,
                       q_len |-> kept(s)[i].q_len]]
    IN  rows("registration") \o rows("triage") \o rows("ed") \o rows("acu")

QueueRows ==
    LET rows(s) == [i \in 1..Len(stats[s]) |->
                      [run_id |-> run_id, service |-> s,
                       timestamp |-> stats[s][i].timestamp,
                       q_len |-> stats[s][i].q_len]]
    IN  rows("registration") \o rows("triage") \o rows("ed") \o rows("acu")

save_queue_lengths ==
    /\ pc = "save_queue_lengths"
    /\ db_queues' = db_queues \o QueueRows
    /\ pc' = "save_patient_stats"
    /\ UNCHANGED <<config, run_id, db_open, db_patients, sim, hist>>

PatientRows ==
    [i \in 1..Len(patients) |->
        [run_id |-> run_id, patient_id |-> patients[i],
         is_for_ed |-> is_for_ed[patients[i]],
         timestamps |-> timestamps[patients[i]]]]

\* save_patient_stats, then the next turn of the loop of run or its end
save_patient_stats ==
    /\ pc = "save_patient_stats"
    /\ db_patients' = db_patients \o PatientRows
    /\ run_id' = run_id + 1
    /\ pc' = IF run_id + 1 < config.n_sims THEN "idle" ELSE "done"
    /\ db_open' = (run_id + 1 < config.n_sims)
    /\ UNCHANGED <<config, db_queues, sim, hist>>

\* variant: the exception is swallowed and the loop of run goes on
save_fails_masked ==
    /\ pc \in {"save_queue_lengths", "save_patient_stats"}
    /\ run_id' = run_id + 1
    /\ pc' = IF run_id + 1 < config.n_sims THEN "idle" ELSE "done"
    /\ db_open' = (run_id + 1 < config.n_sims)
    /\ UNCHANGED <<config, db_queues, db_patients, sim, hist>>

\* a failing to_sql / commit: the exception leaves run through its finally
save_fails ==
    /\ pc \in {"save_queue_lengths", "save_patient_stats"}
    /\ pc' = "failed"
    /\ db_open' = FALSE
    /\ UNCHANGED <<config, run_id, db_queues, db_patients, sim, hist>>

Next ==
    \/ run_once
    \/ generate_patients
    \/ process_patient_start
    \/ do_service_start
    \/ do_service_exit
    \/ release_event
    \/ process_end
    \/ run_until
    \/ save_queue_lengths
    \/ save_patient_stats
    \/ save_fails

Init == InitWith(1)

InitDriver == InitWith(2)

\* one replication
Spec == Init /\ [][Next]_vars

\* the driver's loop over two replications
SpecDriver == InitDriver /\ [][Next]_vars

\* ---------------------------------------------------------------------
\* Properties
\* ---------------------------------------------------------------------
Created == 0..(patient_id - 1)

Has(p, k) == k \in DOMAIN timestamps[p]

RequestCalls == {i \in 1..Len(calls) : calls[i].op = "request"}
ReleaseCalls == {i \in 1..Len(calls) : calls[i].op = "release"}

Sample(c) == stats[c.s][c.idx]

\* C1: in every reachable state each pool has between 0 and capacity
\* patients admitted, and every recorded sample has q_len >= 0.
C1_Occupancy ==
    \A s \in Pools :
        /\ Cardinality(users[s]) >= 0
        /\ Cardinality(users[s]) <= capacity(s)
        /\ \A i \in 1..Len(stats[s]) : stats[s][i].q_len >= 0

\* a pool is full, with a patient waiting and samples recorded
C1_Witness ==
    \E s \in Pools :
        /\ Cardinality(users[s]) = capacity(s)
        /\ queue[s] # <<>>
        /\ Len(stats[s]) >= 2

\* C2: FIFO: of two patients that both had to wait at a pool, the one that
\* issued its request first is admitted (records s_start) first.
StartPos(p, s) ==
    CHOOSE i \in 1..Len(executed) :
        executed[i].kind = "request" /\ executed[i].p = p /\ executed[i].s = s

C2_Fifo ==
    \A j \in 1..Len(calls) :
        (/\ calls[j].op = "request"
         /\ calls[j].waited
         /\ Has(calls[j].p, Key(calls[j].s, "_start")))
        => \A i \in 1..(j - 1) :
              (/\ calls[i].op = "request"
               /\ calls[i].s = calls[j].s
               /\ calls[i].waited)
              => /\ Has(calls[i].p, Key(calls[i].s, "_start"))
                 /\ StartPos(calls[i].p, calls[i].s)
                        < StartPos(calls[j].p, calls[j].s)

\* two patients waited at the same pool and both have been admitted since
C2_Witness ==
    \E i \in RequestCalls, j \in RequestCalls :
        /\ i < j
        /\ calls[i].s = calls[j].s
        /\ calls[i].waited /\ calls[j].waited
        /\ Has(calls[i].p, Key(calls[i].s, "_start"))
        /\ Has(calls[j].p, Key(calls[j].s, "_start"))

\* C3 as stated: the sample of request() is the queue length after the call
\* took effect: unchanged if admitted at once, previous length + 1 if the
\* requester has to wait.
C3_Original ==
    \A i \in RequestCalls :
        /\ ~calls[i].waited => Sample(calls[i]).q_len = calls[i].before
        /\ calls[i].waited  => Sample(calls[i]).q_len = calls[i].before + 1

\* C3 amended: the sample of request() is the queue length before the call
\* takes effect: 0 if the requester is admitted at once, and the previous
\* length, which does not count the requester, if it has to wait.
C3_RequestSampleBefore ==
    \A i \in RequestCalls :
        /\ Sample(calls[i]).q_len = calls[i].before
        /\ Sample(calls[i]).timestamp = calls[i].t
        /\ ~calls[i].waited => calls[i].before = 0
        /\ calls[i].waited => calls[i].after >= 1

\* a request had to wait behind another waiter
C3_Witness ==
    \E i \in RequestCalls :
        /\ calls[i].waited
        /\ calls[i].before = 1
        /\ Sample(calls[i]).q_len = 1

\* C4 as stated: the sample of release() is the queue length after the
\* head waiter was popped: previous length - 1, or 0 on an empty queue.
C4_Original ==
    \A i \in ReleaseCalls :
        /\ calls[i].before > 0 => Sample(calls[i]).q_len = calls[i].before - 1
        /\ calls[i].before = 0 => Sample(calls[i]).q_len = 0

\* C4 amended: the sample of release() is the queue length at the call,
\* with the head waiter still counted (the call itself pops nobody; the
\* waiter is admitted when the Release event is processed).
C4_ReleaseSampleBefore ==
    \A i \in ReleaseCalls :
        /\ Sample(calls[i]).q_len = calls[i].before
        /\ Sample(calls[i]).timestamp = calls[i].t
        /\ calls[i].after = calls[i].before

\* a release found a patient waiting
C4_Witness ==
    \E i \in ReleaseCalls :
        /\ calls[i].before >= 1
        /\ Sample(calls[i]).q_len >= 1

\* C5: the timestamps of a patient recorded so far follow the chain
\* registration, triage, treatment, exit in non-decreasing order, and a
\* later one is recorded only when every earlier one is.
Chain(p) ==
    <<"registration_entry", "registration_start", "registration_exit",
      "triage_entry", "triage_start", "triage_exit",
      Key(treatment(p), "_entry"), Key(treatment(p), "_start"),
      Key(treatment(p), "_exit"), "exit">>

C5_TimestampChain ==
    \A p \in Created :
        LET ch == Chain(p)
            ts == timestamps[p]
        IN  \A i \in 1..9 :
                ch[i + 1] \in DOMAIN ts
                => /\ ch[i] \in DOMAIN ts
                   /\ ts[ch[i]] <= ts[ch[i + 1]]

\* a patient went all the way, waiting at some stage and taking time
C5_Witness ==
    \E p \in Created :
        /\ Has(p, "exit")
        /\ timestamps[p]["exit"] > timestamps[p]["registration_entry"]
        /\ \E q \in Created : \E s \in Pools :
              /\ Has(q, Key(s, "_start"))
              /\ timestamps[q][Key(s, "_start")] > timestamps[q][Key(s, "_entry")]

\* the replication whose results were persisted last, and its state is
\* still the simulation state
Persisted == pc \in {"idle", "done"} /\ run_id > 0

PatientPartition(r) ==
    LET InRun(row) == row.run_id = r IN SelectSeq(db_patients, InRun)

QueuePartition(r, s) ==
    LET InRun(row) == row.run_id = r /\ row.service = s
    IN  SelectSeq(db_queues, InRun)

\* C6 as stated: every persisted patient row has exactly one of ed_entry and
\* acu_entry, also for patients still in registration or triage at the horizon.
C6_Original ==
    \A i \in 1..Len(db_patients) :
        ("ed_entry" \in DOMAIN db_patients[i].timestamps)
            # ("acu_entry" \in DOMAIN db_patients[i].timestamps)

\* C6 amended: every persisted patient row has at most one of ed_entry and
\* acu_entry, never both; the one set is that of the patient's treatment, and
\* one is set exactly when the patient had left triage by the horizon.
C6_AtMostOneTreatment ==
    \A i \in 1..Len(db_patients) :
        LET row == db_patients[i]
            ed  == "ed_entry" \in DOMAIN row.timestamps
            acu == "acu_entry" \in DOMAIN row.timestamps
        IN  /\ ~(ed /\ acu)
            /\ ed => row.is_for_ed
            /\ acu => ~row.is_for_ed
            /\ (ed \/ acu) <=> "triage_exit" \in DOMAIN row.timestamps

\* persisted: a patient that reached its treatment and one that did not
C6_Witness ==
    /\ \E i \in 1..Len(db_patients) :
          "ed_entry" \in DOMAIN db_patients[i].timestamps
    /\ \E i \in 1..Len(db_patients) :
          /\ "ed_entry" \notin DOMAIN db_patients[i].timestamps
          /\ "acu_entry" \notin DOMAIN db_patients[i].timestamps

\* the clock at which generate_patients created patient p
GenEvents ==
    LET IsGen(x) == x.kind \in {"init_gen", "gen_timeout"}
    IN  SelectSeq(executed, IsGen)

CreatedAt(p) == GenEvents[p + 1].time

\* C7: a patient is retained, and persisted at the end of the replication,
\* if and only if it was created at or after warm_up_time
\* (registration_entry >= warm_up_time), finished or not.
C7_WarmUpExclusion ==
    /\ \A p \in Created :
          /\ (\E i \in 1..Len(patients) : patients[i] = p)
                <=> CreatedAt(p) >= config.warm_up_time
          /\ Has(p, "registration_entry")
                => timestamps[p]["registration_entry"] = CreatedAt(p)
    /\ Persisted =>
          LET rows == PatientPartition(run_id - 1)
              kept == {p \in Created :
                         /\ Has(p, "registration_entry")
                         /\ timestamps[p]["registration_entry"]
                                >= config.warm_up_time}
          IN  /\ \A p \in Created : Has(p, "registration_entry")
              /\ {rows[i].patient_id : i \in 1..Len(rows)} = kept
              /\ Len(rows) = Cardinality(kept)

\* persisted: a patient created exactly at the warm-up boundary, unfinished,
\* and not the one created before it
C7_Witness ==
    /\ Persisted
    /\ config.warm_up_time > 0
    /\ \E i \in 1..Len(db_patients) :
          /\ db_patients[i].timestamps["registration_entry"] = config.warm_up_time
          /\ "exit" \notin DOMAIN db_patients[i].timestamps
    /\ \E p \in Created :
          /\ timestamps[p]["registration_entry"] < config.warm_up_time
          /\ \A i \in 1..Len(db_patients) : db_patients[i].patient_id # p

\* C8: patients created during warm-up issue their requests and releases
\* like any other, and every sample these calls produce, also those stamped
\* before warm_up_time, is in the persisted queue-length data.
C8_WarmUpSamplesPersisted ==
    /\ \A p \in Created :
          Has(p, "registration_entry")
          => \E i \in RequestCalls :
                calls[i].p = p /\ calls[i].s = "registration"
    /\ \A s \in Pools :
          LET AtPool(c) == c.s = s
              cs == SelectSeq(calls, AtPool)
          IN  /\ Len(stats[s]) = Len(cs)
              /\ \A i \in 1..Len(cs) : stats[s][i].timestamp = cs[i].t
    /\ (pc = "save_patient_stats" \/ Persisted) =>
          \A s \in Pools :
              LET rows == QueuePartition(IF Persisted THEN run_id - 1 ELSE run_id, s)
              IN  /\ Len(rows) = Len(stats[s])
                  /\ \A i \in 1..Len(rows) :
                        /\ rows[i].timestamp = stats[s][i].timestamp
                        /\ rows[i].q_len = stats[s][i].q_len

\* persisted: a sample stamped before warm_up_time, made by a release of a
\* patient that is not retained
C8_Witness ==
    /\ Persisted
    /\ \E i \in 1..Len(db_queues) :
          db_queues[i].timestamp < config.warm_up_time
    /\ \E i \in ReleaseCalls :
          /\ calls[i].t < config.warm_up_time
          /\ \A k \in 1..Len(patients) : patients[k] # calls[i].p

\* C9: every replication starts from a fresh state, and in every
\* replication the k-th patient created receives id k; with no warm-up each
\* run_id partition of the patient table starts at patient_id 0.
InitEvents ==
    LET IsInit(x) == x.kind = "init_patient" IN SelectSeq(executed, IsInit)

C9_FreshStart ==
    (pc = "idle" /\ pc' = "running") =>
        /\ now' = 0
        /\ \A s \in Pools :
              users'[s] = {} /\ queue'[s] = <<>> /\ stats'[s] = <<>>
        /\ patients' = <<>>
        /\ patient_id' = 0
        /\ timestamps' = EmptyDict

C9_IdsFromZero ==
    /\ \A k \in 1..Len(InitEvents) : InitEvents[k].p = k - 1
    /\ \A r \in 0..(run_id - 1) :
          LET rows == PatientPartition(r)
          IN  /\ \A i \in 1..(Len(rows) - 1) :
                    rows[i + 1].patient_id = rows[i].patient_id + 1
              /\ config.warm_up_time = 0 =>
                    Len(rows) >= 1 /\ rows[1].patient_id = 0

C9_ReplicationIndependence == []C9_IdsFromZero /\ [][C9_FreshStart]_vars

\* the second replication has created its first patient while the first
\* replication's patients are in the table
C9_Witness ==
    /\ run_id = 1
    /\ pc = "running"
    /\ Len(db_patients) >= 1
    /\ Len(patients) >= 1
    /\ Len(InitEvents) >= 1

C10_Step ==
    Len(executed') = Len(executed) + 1 =>
        LET e == executed'[Len(executed')]
        IN  /\ now' = e.time
            /\ now' >= now
            /\ \A i \in 1..Len(executed) :
                  /\ executed[i].time <= e.time
                  /\ executed[i].time = e.time
                        => \/ executed[i].eid < e.eid
                           \/ executed[i].prio = 0 /\ e.prio = 1

QueuesCommitted(r) == \E i \in 1..Len(db_queues) : db_queues[i].run_id = r

PatientsCommitted(r) == r < run_id

\* C11: whenever no save is under way, also after a persistence failure,
\* each run_id has both its queue-length rows and its patient rows committed
\* or neither.
C11_CoherentPersistence ==
    pc \in {"idle", "done", "failed"} =>
        \A r \in 0..(config.n_sims - 1) :
            QueuesCommitted(r) <=> PatientsCommitted(r)

\* C12: when persisting replication k fails the run aborts: the connection
\* is closed, the failure leaves run, and no replication after k is
\* simulated or persisted.
C12_FailingSave ==
    \/ pc = "save_queue_lengths" /\ pc' # pc /\ db_queues' = db_queues
    \/ pc = "save_patient_stats" /\ pc' # pc /\ run_id' = run_id

C12_Step ==
    /\ C12_FailingSave =>
          /\ pc' = "failed"
          /\ ~db_open'
          /\ run_id' = run_id
          /\ db_queues' = db_queues /\ db_patients' = db_patients
    /\ pc = "failed" => vars' = vars

C12_Aborted ==
    pc = "failed" =>
        /\ ~db_open
        /\ \A i \in 1..Len(db_queues) : db_queues[i].run_id <= run_id
        /\ \A i \in 1..Len(db_patients) : db_patients[i].run_id < run_id

C12_AbortOnFailure == []C12_Aborted /\ [][C12_Step]_vars

\* the first replication's save failed with a second replication still to run
C12_Witness ==
    /\ pc = "failed"
    /\ run_id = 0
    /\ config.n_sims = 2
    /\ ~db_open
    /\ Len(db_queues) >= 1

\* the replication has run to its horizon
RunOver == pc \in {"save_queue_lengths", "save_patient_stats", "failed"} \/ Persisted

\* C14 as stated: the run executes every pending event due at or before the
\* horizon, those due exactly at the horizon included.
C14_Original ==
    RunOver => \A e \in events : e.time > total_run_time

\* C14 amended: the run executes every pending event due before the horizon
\* and none due at or after it; no patient is created and no timestamp or
\* sample is recorded at a time >= the horizon, and an event due exactly at
\* the horizon does not take effect.
C14_Horizon ==
    /\ now <= total_run_time
    /\ RunOver =>
          /\ now = total_run_time
          /\ \A e \in events : e.time >= total_run_time
    /\ \A i \in 1..Len(executed) :
          executed[i].kind # "until" => executed[i].time < total_run_time
    /\ \A p \in Created :
          \A k \in DOMAIN timestamps[p] : timestamps[p][k] < total_run_time
    /\ \A s \in Pools :
          \A i \in 1..Len(stats[s]) : stats[s][i].timestamp < total_run_time

\* the run is over with a service timeout and an arrival due exactly at the
\* horizon left unexecuted, after events at a time > 0 were executed
C14_Witness ==
    /\ RunOver
    /\ \E e \in events : e.time = total_run_time /\ e.kind = "timeout"
    /\ \E e \in events : e.time = total_run_time /\ e.kind = "gen_timeout"
    /\ \E i \in 1..Len(executed) :
          executed[i].time > 0 /\ executed[i].kind = "request"

\* the calls of patient p on the pools, in order, as <<op, pool>>
CallsOf(p) ==
    LET ByP(c) == c.p = p
        cs == SelectSeq(calls, ByP)
    IN  [i \in 1..Len(cs) |-> <<cs[i].op, cs[i].s>>]

Journey(ed) ==
    LET t == IF ed THEN "ed" ELSE "acu"
    IN  <<(<<"request", "registration">>), (<<"release", "registration">>),
          (<<"request", "triage">>), (<<"release", "triage">>),
          (<<"request", t>>), (<<"release", t>>)>>

\* C15: a patient's pool calls follow registration, triage, then the
\* treatment drawn at its creation: one request per pool, the next stage
\* requested only after the release of the one before, and never the pool
\* of the other treatment.
C15_CallsFollowJourney ==
    \A p \in Created :
        LET cs == CallsOf(p)
        IN  /\ Len(cs) <= 6
            /\ cs = SubSeq(Journey(is_for_ed[p]), 1, Len(cs))

C15_TreatmentFixed ==
    \A p \in DOMAIN is_for_ed :
        p \in DOMAIN is_for_ed' => is_for_ed'[p] = is_for_ed[p]

C15_StageOrder == []C15_CallsFollowJourney /\ [][pc = "running" => C15_TreatmentFixed]_vars

\* an ed patient and an acu patient have both made all their calls
C15_Witness ==
    \E p \in Created, q \in Created :
        /\ is_for_ed[p] /\ ~is_for_ed[q]
        /\ Len(CallsOf(p)) = 6
        /\ Len(CallsOf(q)) = 6

\* simulated time has moved past t, or the run is over
Past(t) == now > t \/ RunOver

\* C16: on a release with patients waiting the head waiter is admitted at
\* the same simulated time (its s_start is the releaser's s_exit), time never
\* advances while a pool has a waiter and a free unit, and a request that
\* finds a free unit and no waiter is admitted at once (s_start = s_entry).
C16_Admitted ==
    \A i \in 1..Len(calls) :
        LET c == calls[i]
            start == Key(c.s, "_start")
        IN  /\ (c.op = "release" /\ c.before >= 1) =>
                  /\ Past(c.t) => Has(c.head, start)
                  /\ Has(c.head, start) =>
                        /\ timestamps[c.head][start] = c.t
                        /\ timestamps[c.head][start]
                              = timestamps[c.p][Key(c.s, "_exit")]
            /\ (c.op = "request" /\ ~c.waited) =>
                  /\ Past(c.t) => Has(c.p, start)
                  /\ Has(c.p, start) =>
                        timestamps[c.p][start]
                            = timestamps[c.p][Key(c.s, "_entry")]

C16_Step ==
    (pc = "running" /\ now' > now) =>
        \A s \in Pools :
            ~(queue[s] # <<>> /\ Cardinality(users[s]) < capacity(s))

C16_WorkConservation == []C16_Admitted /\ [][C16_Step]_vars

\* a release at a time > 0 found a waiter, who has started at that time
C16_Witness ==
    \E i \in ReleaseCalls :
        /\ calls[i].before >= 1
        /\ calls[i].t >= 1
        /\ Has(calls[i].head, Key(calls[i].s, "_start"))
        /\ timestamps[calls[i].head][Key(calls[i].s, "_start")] = calls[i].t

CallsAt(s) ==
    LET AtS(c) == c.s = s
    IN  SelectSeq(calls, AtS)

\* C17: every request() and release() of a pool appends exactly one sample
\* stamped with the current clock: the samples of a pool are as many as the
\* calls made on it, the k-th sample carries the time of the k-th call,
\* recorded samples are never modified or removed, and the timestamps of a
\* pool are non-decreasing in recording order.
C17_OnePerCall ==
    \A s \in Pools :
        LET cs == CallsAt(s)
        IN  /\ Len(stats[s]) = Len(cs)
            /\ \A k \in 1..Len(cs) :
                  /\ cs[k].idx = k
                  /\ stats[s][k].timestamp = cs[k].t
                  /\ k > 1 => stats[s][k - 1].timestamp <= stats[s][k].timestamp

C17_Step ==
    pc = "running" =>
        \A s \in Pools :
            /\ Len(stats'[s]) >= Len(stats[s])
            /\ SubSeq(stats'[s], 1, Len(stats[s])) = stats[s]
            /\ \A k \in (Len(stats[s]) + 1)..Len(stats'[s]) :
                  stats'[s][k].timestamp = now'

C17_SampleLog == []C17_OnePerCall /\ [][C17_Step]_vars

\* a pool with samples of requests and of releases taken at different times
C17_Witness ==
    \E s \in Pools :
        /\ Len(stats[s]) >= 4
        /\ stats[s][1].timestamp < stats[s][Len(stats[s])].timestamp
        /\ \E i \in ReleaseCalls : calls[i].s = s
        /\ \E i \in RequestCalls : calls[i].s = s /\ calls[i].t > 0

\* timestamps a and b of p are recorded together and are equal
Same(p, a, b) ==
    /\ Has(p, a) <=> Has(p, b)
    /\ Has(p, a) => timestamps[p][a] = timestamps[p][b]

\* C18: stage hand-off takes no simulated time: for every patient
\* triage_entry = registration_exit, the treatment stage's entry =
\* triage_exit and exit = the treatment stage's exit; a single patient
\* (no contention; in particular capacity 1 everywhere and no warm-up) has
\* registration_entry = registration_start = 0 and s_start = s_entry at
\* every stage it enters.
C18_HandOff ==
    /\ \A p \in Created :
          LET t == IF is_for_ed[p] THEN "ed" ELSE "acu"
          IN  /\ Same(p, "registration_exit", "triage_entry")
              /\ Same(p, "triage_exit", Key(t, "_entry"))
              /\ Same(p, Key(t, "_exit"), "exit")
    /\ patient_id = 1 =>
          /\ Past(0) => Has(0, "registration_entry")
          /\ Has(0, "registration_entry") =>
                timestamps[0]["registration_entry"] = 0
          /\ \A s \in Pools :
                Has(0, Key(s, "_entry")) =>
                    /\ Past(timestamps[0][Key(s, "_entry")]) =>
                          Has(0, Key(s, "_start"))
                    /\ Has(0, Key(s, "_start")) =>
                          timestamps[0][Key(s, "_start")]
                              = timestamps[0][Key(s, "_entry")]

\* the run is over with a single patient, capacity 1 everywhere and no
\* warm-up, and the patient has gone through its three stages
C18_Witness ==
    /\ RunOver
    /\ patient_id = 1
    /\ config.warm_up_time = 0
    /\ \A s \in Pools : capacity(s) = 1
    /\ Has(0, "exit")
    /\ Has(0, "triage_start")

Holding(p) == {s \in Pools : p \in users[s]}

WaitingAt(p, s) == {i \in 1..Len(queue[s]) : queue[s][i] = p}

Waiting(p) == {s \in Pools : WaitingAt(p, s) # {}}

ReleasesOf(p, s) == {i \in ReleaseCalls : calls[i].p = p /\ calls[i].s = s}

\* each patient holds at most one unit, waits in at most one queue, never both
C19_OnePlace ==
    \A p \in Created :
        /\ Cardinality(Holding(p)) + Cardinality(Waiting(p)) <= 1
        /\ \A s \in Pools : Cardinality(WaitingAt(p, s)) <= 1

\* every release is made by a holder, at the moment it records s_exit
C19_ReleaseByHolder ==
    \A i \in ReleaseCalls :
        LET c == calls[i]
        IN  /\ c.held
            /\ Has(c.p, Key(c.s, "_start"))
            /\ Has(c.p, Key(c.s, "_exit"))
            /\ timestamps[c.p][Key(c.s, "_exit")] = c.t
            /\ c.p \notin users[c.s]

\* C19 as stated: when the run is over every patient that was admitted to a
\* pool has released it exactly once.
C19_Original ==
    /\ C19_OnePlace
    /\ C19_ReleaseByHolder
    /\ RunOver =>
          \A p \in Created : \A s \in Pools :
              Has(p, Key(s, "_start")) => Cardinality(ReleasesOf(p, s)) = 1

\* C19: each patient holds at most one pool unit and waits in at most one
\* queue, never both; a unit is released only by a patient that holds it;
\* an admitted patient releases its pool at most once: exactly once, at the
\* moment it records s_exit, and not at all when the run stops before that.
C19_HoldRelease ==
    /\ C19_OnePlace
    /\ C19_ReleaseByHolder
    /\ \A p \in Created : \A s \in Pools :
          /\ Cardinality(ReleasesOf(p, s)) <= 1
          /\ Has(p, Key(s, "_exit")) <=> ReleasesOf(p, s) # {}
          /\ (RunOver /\ Has(p, Key(s, "_start")) /\ ~Has(p, Key(s, "_exit")))
                => p \in users[s]

\* the run is over: one patient has released a pool it held, another still
\* holds the pool it was admitted to, a third is waiting
C19_Witness ==
    /\ RunOver
    /\ \E i \in ReleaseCalls : calls[i].held
    /\ \E p \in Created : \E s \in Pools :
          /\ p \in users[s]
          /\ Has(p, Key(s, "_start"))
          /\ ReleasesOf(p, s) = {}
    /\ \E q \in Created : Waiting(q) # {}

====
